---- MODULE Spec2Model ----
(***************************************************************************)
(* Model of viz_utils/camera_utils.py: LookAtPoseSampler.sample,           *)
(* get_origin, get_forward_vector, create_cam2world_matrix and             *)
(* normalize_vecs.                                                         *)
(*                                                                         *)
(* Numbers.  The code computes in IEEE floating point.  The model computes *)
(* in exact real arithmetic extended with the IEEE special values NaN and  *)
(* +-Infinity (rounding is not modelled).  A finite number is kept as its  *)
(* sign and its square,                                                    *)
(*      s * sqrt( (p[1] + p[2]*e + p[3]*e^2) / d ),    e = 1e-5 / pi,      *)
(* which is closed under the products, quotients and norms of the code and *)
(* under the sums of commensurable numbers.  e is transcendental, so two   *)
(* such squares are equal as reals iff their coefficients are equal.       *)
(*                                                                         *)
(* Angles.  A horizontal angle is kept as its point (cos, sin) on the unit *)
(* circle.  A vertical angle is kept as  t*(pi/10) + e*1e-5  (fields t, e) *)
(* and is ordered lexicographically, which is the order of the reals as    *)
(* long as |e| * 1e-5 < pi/10.                                             *)
(***************************************************************************)
EXTENDS Integers, Sequences, FiniteSets, TLC

\* ---------------------------------------------------------------- bounds
\* Largest batch size of the angle batches and of the (N, 3) tensors.
MaxBatch == 2
\* Radii range over -1 .. MaxRadius.
MaxRadius == 2

\* ------------------------------------------------------------ arithmetic
Abs(x) == IF x < 0 THEN -x ELSE x

Sgn(x) == IF x < 0 THEN -1 ELSE IF x = 0 THEN 0 ELSE 1

RECURSIVE GCD(_, _)
GCD(a, b) == IF b = 0 THEN a ELSE GCD(b, a % b)

\* The largest k in lo..hi with k * k <= n.
RECURSIVE RootIn(_, _, _)
RootIn(lo, hi, n) ==
  IF lo >= hi THEN lo
  ELSE LET mid == (lo + hi + 1) \div 2
       IN IF mid * mid <= n THEN RootIn(mid, hi, n) ELSE RootIn(lo, mid - 1, n)

\* The integer square root of n < 2^31.
Root(n) == RootIn(0, IF n < 46340 THEN n ELSE 46340, n)

IsSquare(n) == Root(n) * Root(n) = n

ZeroPoly == <<0, 0, 0>>

Zero == [k |-> "fin", s |-> 0, p |-> ZeroPoly, d |-> 1]

NaN == [k |-> "nan", s |-> 0, p |-> ZeroPoly, d |-> 1]

Inf(s) == [k |-> "inf", s |-> s, p |-> ZeroPoly, d |-> 1]

\* The greatest common divisor of the coefficients of p.
Content(p) == GCD(GCD(Abs(p[1]), Abs(p[2])), Abs(p[3]))

\* The finite number s * sqrt(p / d), in lowest terms.
Fin(s, p, d) ==
  LET g == GCD(Content(p), d)
  IN IF s = 0 \/ p = ZeroPoly THEN Zero
     ELSE [k |-> "fin", s |-> s,
           p |-> <<p[1] \div g, p[2] \div g, p[3] \div g>>, d |-> d \div g]

\* The rational a / b, b > 0.
Rat(a, b) == Fin(Sgn(a), <<a * a, 0, 0>>, b * b)

Whole(a) == Rat(a, 1)

One == Whole(1)

IsNaN(x) == x.k = "nan"

IsFinite(x) == x.k = "fin"

\* A finite number whose square does not involve e.
IsPlain(x) == x.k = "fin" /\ x.p[2] = 0 /\ x.p[3] = 0

Neg(x) == [x EXCEPT !.s = -x.s]

\* x * y for finite non-zero x and plain non-zero y, cancelling before multiplying.
Scale(x, y) ==
  LET g1 == GCD(y.p[1], x.d)
      g2 == GCD(Content(x.p), y.d)
      m  == y.p[1] \div g1
  IN Fin(x.s * y.s,
         <<(x.p[1] \div g2) * m, (x.p[2] \div g2) * m, (x.p[3] \div g2) * m>>,
         (x.d \div g1) * (y.d \div g2))

\* x * y.  Finite factors: at least one of them is plain.
Mul(x, y) ==
  CASE x.k = "nan" \/ y.k = "nan" -> NaN
    [] x.k = "inf" /\ y.k = "inf" -> Inf(x.s * y.s)
    [] x.k = "inf" /\ y.k = "fin" -> IF y.s = 0 THEN NaN ELSE Inf(x.s * y.s)
    [] x.k = "fin" /\ y.k = "inf" -> IF x.s = 0 THEN NaN ELSE Inf(x.s * y.s)
    [] x.k = "fin" /\ y.k = "fin" /\ (x.s = 0 \/ y.s = 0) -> Zero
    [] x.k = "fin" /\ y.k = "fin" /\ x.s # 0 /\ y.s # 0 /\ (IsPlain(x) \/ IsPlain(y)) ->
         IF IsPlain(y) THEN Scale(x, y) ELSE Scale(y, x)

\* 1 / y for a plain non-zero y.
Recip(y) == Fin(y.s, <<y.d, 0, 0>>, y.p[1])

\* x / y as IEEE division: 0/0 is NaN, x/0 is an infinity.  Finite non-zero
\* divisors are plain.
Div(x, y) ==
  CASE x.k = "nan" \/ y.k = "nan" -> NaN
    [] x.k = "inf" /\ y.k = "inf" -> NaN
    [] x.k = "inf" /\ y.k = "fin" -> Inf(IF y.s = 0 THEN x.s ELSE x.s * y.s)
    [] x.k = "fin" /\ y.k = "inf" -> Zero
    [] x.k = "fin" /\ y.k = "fin" /\ y.s = 0 -> IF x.s = 0 THEN NaN ELSE Inf(x.s)
    [] x.k = "fin" /\ y.k = "fin" /\ y.s # 0 /\ IsPlain(y) -> Mul(x, Recip(y))

\* p2 / d2 = rho^2 * p1 / d1 for a rational rho: the two numbers are
\* commensurable.
Commensurable(x, y) ==
  LET i  == CHOOSE j \in 1..3 : x.p[j] # 0
      g1 == GCD(Abs(y.p[i]), Abs(x.p[i]))
      g2 == GCD(x.d, y.d)
  IN /\ y.p[i] # 0
     /\ \A j \in 1..3 \ {i} : y.p[j] * x.p[i] = x.p[j] * y.p[i]
     /\ IsSquare((Abs(y.p[i]) \div g1) * (x.d \div g2))
     /\ IsSquare((Abs(x.p[i]) \div g1) * (y.d \div g2))

\* x + y of two finite non-zero commensurable numbers: y = (s2/s1)*(ra/rb)*x.
AddFin(x, y) ==
  LET i  == CHOOSE j \in 1..3 : x.p[j] # 0
      g1 == GCD(Abs(y.p[i]), Abs(x.p[i]))
      g2 == GCD(x.d, y.d)
      ra == Root((Abs(y.p[i]) \div g1) * (x.d \div g2))
      rb == Root((Abs(x.p[i]) \div g1) * (y.d \div g2))
      m  == rb + x.s * y.s * ra
  IN IF m = 0 THEN Zero ELSE Mul(x, Rat(m, rb))

\* x + y.  Finite non-zero summands are commensurable.
Add(x, y) ==
  CASE x.k = "nan" \/ y.k = "nan" -> NaN
    [] x.k = "inf" /\ y.k = "inf" -> IF x.s = y.s THEN x ELSE NaN
    [] x.k = "inf" /\ y.k = "fin" -> x
    [] x.k = "fin" /\ y.k = "inf" -> y
    [] x.k = "fin" /\ y.k = "fin" /\ x.s = 0 -> y
    [] x.k = "fin" /\ y.k = "fin" /\ x.s # 0 /\ y.s = 0 -> x
    [] x.k = "fin" /\ y.k = "fin" /\ x.s # 0 /\ y.s # 0 /\ Commensurable(x, y) ->
         AddFin(x, y)

Sub(x, y) == Add(x, Neg(y))

\* The square of a finite number, p / d, and the sum of two squares.
SqOf(x) == [p |-> x.p, d |-> x.d]

SqAdd(a, b) ==
  LET g  == GCD(a.d, b.d)
      ma == b.d \div g
      mb == a.d \div g
      p  == <<a.p[1] * ma + b.p[1] * mb, a.p[2] * ma + b.p[2] * mb,
              a.p[3] * ma + b.p[3] * mb>>
      d  == a.d * ma
      h  == GCD(Content(p), d)
  IN IF p = ZeroPoly THEN [p |-> ZeroPoly, d |-> 1]
     ELSE [p |-> <<p[1] \div h, p[2] \div h, p[3] \div h>>, d |-> d \div h]

\* x^2 + y^2 + z^2 of a vector of finite numbers.
RECURSIVE SumSqTo(_, _)
SumSqTo(vec, k) == IF k = 1 THEN SqOf(vec[1]) ELSE SqAdd(SumSqTo(vec, k - 1), SqOf(vec[k]))

SumSq(vec) == SumSqTo(vec, 3)

\* torch.norm of one row: sqrt(x^2 + y^2 + z^2).
Norm(vec) ==
  IF \E i \in 1..3 : vec[i].k = "nan" THEN NaN
  ELSE IF \E i \in 1..3 : vec[i].k = "inf" THEN Inf(1)
  ELSE LET q == SumSq(vec) IN Fin(1, q.p, q.d)

\* ---------------------------------------------------------------- angles
\* The vertical angle t*(pi/10) + e*1e-5, in radians.
V(t, e) == [t |-> t, e |-> e]

\* 1e-5 and math.pi - 1e-5, the bounds of the clamp.
Eps == V(0, 1)

PiMinusEps == V(10, -1)

VLess(a, b) == a.t < b.t \/ (a.t = b.t /\ a.e < b.e)

VLeq(a, b) == a = b \/ VLess(a, b)

\* Faulty variant of clamp: the lower bound is not applied.
clamp_upper_only(x, lo, hi) == IF VLess(hi, x) THEN hi ELSE x

\* torch.clamp(x, lo, hi) = min(max(x, lo), hi).
clamp(x, lo, hi) == IF VLess(x, lo) THEN lo ELSE IF VLess(hi, x) THEN hi ELSE x

\* v / math.pi = c/10 + e * (1e-5/pi).
DivPi(v) == [c |-> v.t, e |-> v.e]

\* 1 - 2 * u.
OneMinusTwice(u) == [c |-> 10 - 2 * u.c, e |-> -2 * u.e]

\* w lies in [-1, 1], the domain of arccos.
InUnit(w) ==
  /\ w.c > -10 \/ (w.c = -10 /\ w.e >= 0)
  /\ w.c < 10 \/ (w.c = 10 /\ w.e <= 0)

\* torch.cos(torch.arccos(w)) = w, and NaN outside [-1, 1].
CosArccos(w) ==
  IF ~InUnit(w) THEN NaN
  ELSE Fin(IF w.c # 0 THEN Sgn(w.c) ELSE Sgn(w.e),
           <<w.c * w.c, 20 * w.c * w.e, 100 * w.e * w.e>>, 100)

\* torch.sin(torch.arccos(w)) = sqrt(1 - w^2), and NaN outside [-1, 1].
SinArccos(w) ==
  IF ~InUnit(w) THEN NaN
  ELSE Fin(1, <<100 - w.c * w.c, -20 * w.c * w.e, -100 * w.e * w.e>>, 100)

\* The horizontal angle whose cosine is a/d and whose sine is b/d.
Th(a, b, d) == [c |-> Rat(a, d), s |-> Rat(b, d)]

\* math.pi - theta.
PiMinus(theta) == [c |-> Neg(theta.c), s |-> theta.s]

\* --------------------------------------------------------------- tensors
\* A 0-dim tensor (nd = 0) or a 1-dim tensor (nd = 1) of scalars; nd = -1
\* stands for an operation that raised a shape error.
Scalar(x) == [nd |-> 0, vals |-> <<x>>]

Batch(seq) == [nd |-> 1, vals |-> seq]

ErrS == [nd |-> -1, vals |-> <<>>]

NoS == [nd |-> -2, vals |-> <<>>]

Max(a, b) == IF a >= b THEN a ELSE b

\* F applied to the value v: v is computed once and named by F's parameter.
Let(v, F(_)) == F(v)

\* The sequence <<F(1), ..., F(n)>>.
RECURSIVE Tabulate(_, _)
Tabulate(F(_), n) == IF n = 0 THEN <<>> ELSE Append(Tabulate(F, n - 1), F(n))

\* The broadcast size of two sizes, 0 when they do not broadcast.
BSize(m, n) == IF m = n THEN m ELSE IF m = 1 THEN n ELSE IF n = 1 THEN m ELSE 0

\* Faulty variant of At: every index reads the first row.
AtFirstRow(seq, i) == seq[1]

\* Row i of a tensor of n rows, and the only row of a tensor broadcast to n rows.
At(seq, i) == seq[IF Len(seq) = 1 THEN 1 ELSE i]

\* a * b, elementwise with broadcasting.
MulS(a, b) ==
  IF a.nd < 0 \/ b.nd < 0 \/ BSize(Len(a.vals), Len(b.vals)) = 0 THEN ErrS
  ELSE [nd |-> Max(a.nd, b.nd),
        vals |-> Tabulate(LAMBDA i : Mul(At(a.vals, i), At(b.vals, i)),
                          BSize(Len(a.vals), Len(b.vals)))]

\* A tensor of 3-vectors: shape (3,) (nd = 1, one row) or (N, 3) (nd = 2).
Vec(x, y, z) == <<Whole(x), Whole(y), Whole(z)>>

T1(vec) == [nd |-> 1, rows |-> <<vec>>]

T2(rows) == [nd |-> 2, rows |-> rows]

ErrT == [nd |-> -1, rows |-> <<>>]

\* None, or a tensor the call does not take.
NoT == [nd |-> 0, rows |-> <<>>]

SubVec(a, b) == Tabulate(LAMBDA j : Sub(a[j], b[j]), 3)

NegVec(a) == Tabulate(LAMBDA j : Neg(a[j]), 3)

\* The vector a divided by the scalar x.
DivVec(a, x) == Tabulate(LAMBDA j : Div(a[j], x), 3)

\* a - b, elementwise with broadcasting over the batch dimension.
SubT(a, b) ==
  IF a.nd < 1 \/ b.nd < 1 \/ BSize(Len(a.rows), Len(b.rows)) = 0 THEN ErrT
  ELSE [nd |-> Max(a.nd, b.nd),
        rows |-> Tabulate(LAMBDA i : SubVec(At(a.rows, i), At(b.rows, i)),
                          BSize(Len(a.rows), Len(b.rows)))]

NegT(a) == [a EXCEPT !.rows = Tabulate(LAMBDA i : NegVec(a.rows[i]), Len(a.rows))]

\* (a2*b3 - a3*b2, a3*b1 - a1*b3, a1*b2 - a2*b1).
CrossVec(a, b) ==
  Tabulate(LAMBDA i : Sub(Mul(a[(i % 3) + 1], b[((i + 1) % 3) + 1]),
                          Mul(a[((i + 1) % 3) + 1], b[(i % 3) + 1])), 3)

\* torch.cross(a, b, dim=-1) of two tensors of the same shape.
CrossT(a, b) ==
  IF a.nd < 1 \/ b.nd # a.nd \/ Len(a.rows) # Len(b.rows) THEN ErrT
  ELSE [a EXCEPT !.rows = Tabulate(LAMBDA i : CrossVec(a.rows[i], b.rows[i]), Len(a.rows))]

\* up.expand_as(like): a (3,) or (1, 3) tensor repeated to the shape of like.
ExpandAs(up, like) ==
  IF up.nd < 1 \/ like.nd < 1 \/ up.nd > like.nd
     \/ ~(Len(up.rows) \in {1, Len(like.rows)}) THEN ErrT
  ELSE [like EXCEPT !.rows = Tabulate(LAMBDA i : At(up.rows, i), Len(like.rows))]

\* tensor.shape[0]: 3 for a (3,) tensor, N for an (N, 3) tensor.
ShapeZero(t) == IF t.nd = 1 THEN 3 ELSE Len(t.rows)

\* Faulty variant of normalize_vecs: the division is done in place, so that the
\* argument tensor holds the normalized rows afterwards.
normalize_vecs_in_place(vectors) ==
  [val |-> IF vectors.nd < 1 THEN ErrT
           ELSE [vectors EXCEPT !.rows =
                   Tabulate(LAMBDA i : DivVec(vectors.rows[i], Norm(vectors.rows[i])),
                            Len(vectors.rows))],
   arg |-> IF vectors.nd < 1 THEN vectors
           ELSE [vectors EXCEPT !.rows =
                   Tabulate(LAMBDA i : DivVec(vectors.rows[i], Norm(vectors.rows[i])),
                            Len(vectors.rows))]]

\* ------------------------------------------------------------- functions
\* vectors / torch.norm(vectors, dim=-1, keepdim=True): a new tensor (val);
\* arg is the argument tensor as the call leaves it.
normalize_vecs(vectors) ==
  [val |-> IF vectors.nd < 1 THEN ErrT
           ELSE [vectors EXCEPT !.rows =
                   Tabulate(LAMBDA i : DivVec(vectors.rows[i], Norm(vectors.rows[i])),
                            Len(vectors.rows))],
   arg |-> vectors]

\* phi = arccos(1 - 2 * v / pi), kept as its cosine 1 - 2 * v / pi.
PhiOf(v) == OneMinusTwice(DivPi(v))

\* radius * sin(phi) * cos(pi - theta), with broadcasting.
OriginX(radius, v, theta) ==
  MulS(MulS(radius, [v EXCEPT !.vals = Tabulate(LAMBDA i : SinArccos(PhiOf(v.vals[i])), Len(v.vals))]),
       [theta EXCEPT !.vals = Tabulate(LAMBDA i : PiMinus(theta.vals[i]).c, Len(theta.vals))])

\* radius * sin(phi) * sin(pi - theta).
OriginZ(radius, v, theta) ==
  MulS(MulS(radius, [v EXCEPT !.vals = Tabulate(LAMBDA i : SinArccos(PhiOf(v.vals[i])), Len(v.vals))]),
       [theta EXCEPT !.vals = Tabulate(LAMBDA i : PiMinus(theta.vals[i]).s, Len(theta.vals))])

\* Faulty variant of OriginY: radius * sin(phi).
OriginY_sin(radius, v) ==
  MulS(radius, [v EXCEPT !.vals = Tabulate(LAMBDA i : SinArccos(PhiOf(v.vals[i])), Len(v.vals))])

\* radius * cos(phi).
OriginY(radius, v) ==
  MulS(radius, [v EXCEPT !.vals = Tabulate(LAMBDA i : CosArccos(PhiOf(v.vals[i])), Len(v.vals))])

\* torch.clamp(v, 1e-5, math.pi - 1e-5), elementwise.
ClampV(v) == [v EXCEPT !.vals = Tabulate(LAMBDA i : clamp(v.vals[i], Eps, PiMinusEps), Len(v.vals))]

\* A value that can be assigned to a slice of shape (1,): its shape is () or (1,).
FitsSlice(x) == x.nd >= 0 /\ Len(x.vals) = 1

get_origin(horizontal_mean, vertical_mean, radius) ==
  Let(horizontal_mean, LAMBDA h :
  Let(ClampV(vertical_mean), LAMBDA v :
  Let(h, LAMBDA theta :
  Let(OriginX(radius, v, theta), LAMBDA x :
  Let(OriginZ(radius, v, theta), LAMBDA z :
  Let(OriginY(radius, v), LAMBDA y :
    IF FitsSlice(x) /\ FitsSlice(z) /\ FitsSlice(y)
    THEN [st |-> "ok", val |-> T1(<<x.vals[1], y.vals[1], z.vals[1]>>)]
    ELSE [st |-> "RuntimeError", val |-> NoT]))))))

\* Faulty variant of get_forward_vector: the origin is always computed from the
\* angles and the radius, a passed camera_origins is ignored.
get_forward_vector_recomputing(lookat_position, horizontal_mean, vertical_mean, radius, camera_origins) ==
  Let(get_origin(horizontal_mean, vertical_mean, radius), LAMBDA o :
  Let(SubT(lookat_position, o.val), LAMBDA diff :
    IF o.st # "ok" THEN [st |-> o.st, val |-> NoT]
    ELSE IF diff = ErrT THEN [st |-> "RuntimeError", val |-> NoT]
    ELSE [st |-> "ok", val |-> normalize_vecs(diff).val]))


get_forward_vector(lookat_position, horizontal_mean, vertical_mean, radius, camera_origins) ==
  Let(IF camera_origins = NoT
      THEN get_origin(horizontal_mean, vertical_mean, radius)
      ELSE [st |-> "ok", val |-> camera_origins], LAMBDA o :
  Let(SubT(lookat_position, o.val), LAMBDA diff :
    IF o.st # "ok" THEN [st |-> o.st, val |-> NoT]
    ELSE IF diff = ErrT THEN [st |-> "RuntimeError", val |-> NoT]
    ELSE [st |-> "ok", val |-> normalize_vecs(diff).val]))

\* Faulty variant of RightVector: the cross product is not normalized.
RightVector_unnormalized(up, forward) == NegT(CrossT(up, forward))

\* right_vector = -normalize_vecs(torch.cross(up_vector, forward_vector)).
RightVector(up, forward) == NegT(normalize_vecs(CrossT(up, forward)).val)

\* Faulty variant of UpVector: the factors of the cross product are swapped.
UpVector_swapped(forward, right) == normalize_vecs(CrossT(right, forward)).val

\* up_vector = normalize_vecs(torch.cross(forward_vector, right_vector)).
UpVector(forward, right) == normalize_vecs(CrossT(forward, right)).val

\* torch.eye(4) with its upper-left block set to the columns right, up, forward.
RotationMatrix(right, up, forward) ==
  Tabulate(LAMBDA a : Tabulate(LAMBDA b :
     IF a <= 3 /\ b <= 3
     THEN (CASE b = 1 -> right[a] [] b = 2 -> up[a] [] b = 3 -> forward[a])
     ELSE IF a = b THEN One ELSE Zero, 4), 4)

\* torch.eye(4) with rows 0-2 of its last column set to origin.
TranslationMatrix(origin) ==
  Tabulate(LAMBDA a : Tabulate(LAMBDA b :
     IF a <= 3 /\ b = 4 THEN origin[a] ELSE IF a = b THEN One ELSE Zero, 4), 4)

\* A[a][1]*B[1][b] + ... + A[a][k]*B[k][b].
RECURSIVE DotTo(_, _, _, _, _)
DotTo(A, B, a, b, k) ==
  IF k = 1 THEN Mul(A[a][1], B[1][b])
  ELSE Add(DotTo(A, B, a, b, k - 1), Mul(A[a][k], B[k][b]))

\* Faulty variant of MatMul: the elementwise product A * B.
MatMul_elementwise(A, B) ==
  Tabulate(LAMBDA a : Tabulate(LAMBDA b : Mul(A[a][b], B[a][b]), 4), 4)

\* A @ B for 4x4 matrices.
MatMul(A, B) == Tabulate(LAMBDA a : Tabulate(LAMBDA b : DotTo(A, B, a, b, 4), 4), 4)

\* cam2world.shape[1:] == (4, 4).
TrailingShapeOk(mats) ==
  \A i \in DOMAIN mats : Len(mats[i]) = 4 /\ \A a \in 1..4 : Len(mats[i][a]) = 4

\* val: the batch of matrices; forward, origin, up: the argument tensors as the
\* call leaves them.
create_cam2world_matrix(forward_vector, origin, up_vector) ==
  Let(normalize_vecs(forward_vector), LAMBDA nf :
  Let(nf.val, LAMBDA fwd :
  Let(ExpandAs(up_vector, fwd), LAMBDA up0 :
  Let(RightVector(up0, fwd), LAMBDA right :
  Let(UpVector(fwd, right), LAMBDA up1 :
  Let(ShapeZero(fwd), LAMBDA n :
    IF fwd = ErrT \/ up0 = ErrT \/ origin.nd < 1 \/ ~(Len(origin.rows) \in {1, n})
    THEN [st |-> "RuntimeError", val |-> <<>>,
          forward |-> nf.arg, origin |-> origin, up |-> up_vector]
    ELSE
  Let(Tabulate(LAMBDA i :
        MatMul(TranslationMatrix(At(origin.rows, i)),
               RotationMatrix(At(right.rows, i), At(up1.rows, i), At(fwd.rows, i))),
        n), LAMBDA cam2world :
    IF ~TrailingShapeOk(cam2world)
    THEN [st |-> "AssertionError", val |-> <<>>,
          forward |-> nf.arg, origin |-> origin, up |-> up_vector]
    ELSE [st |-> "ok", val |-> cam2world,
          forward |-> nf.arg, origin |-> origin, up |-> up_vector])))))))

\* LookAtPoseSampler.sample; moving the result to the device leaves its values.
sample(horizontal_mean, vertical_mean, lookat_position, radius, up_vector) ==
  Let(get_origin(horizontal_mean, vertical_mean, radius), LAMBDA camera_origins :
    IF camera_origins.st # "ok"
    THEN [st |-> camera_origins.st, val |-> <<>>,
          lookat |-> lookat_position, up |-> up_vector]
    ELSE
  Let(get_forward_vector(lookat_position, horizontal_mean, vertical_mean, radius,
                         camera_origins.val), LAMBDA forward_vectors :
    IF forward_vectors.st # "ok"
    THEN [st |-> forward_vectors.st, val |-> <<>>,
          lookat |-> lookat_position, up |-> up_vector]
    ELSE
  Let(create_cam2world_matrix(forward_vectors.val, camera_origins.val, up_vector),
      LAMBDA cam :
    [st |-> cam.st, val |-> cam.val, lookat |-> lookat_position, up |-> cam.up])))

\* ---------------------------------------------------------------- inputs
Thetas == {Th(1, 0, 1), Th(0, 1, 1), Th(-1, 0, 1), Th(0, -1, 1), Th(3, 4, 5), Th(-4, 3, 5)}

\* Vertical angles strictly inside the clamp interval for which sin(phi) and
\* cos(phi) are rational: pi/10, pi/5, pi/2, 4pi/5, 9pi/10.
VRegular == {V(1, 0), V(2, 0), V(5, 0), V(8, 0), V(9, 0)}

\* Vertical angles at, next to and outside the bounds of the clamp interval.
VEdge == {V(0, 0), V(0, 1), V(0, 2), V(10, -2), V(10, -1), V(10, 0), V(-1, 0), V(11, 0)}

Radii == {Whole(r) : r \in -1..MaxRadius}

Angles(h, v, r) == [h |-> h, v |-> v, r |-> r]

ScalarAngles(VS) ==
  {Angles(Scalar(th), Scalar(vv), Scalar(rr)) : th \in Thetas, vv \in VS, rr \in Radii}

\* Batches of 1..MaxBatch angle pairs, and a batch of radii.
BatchAngles ==
  UNION {{Angles(Batch(f), Batch(g), Scalar(One)) :
            f \in [1..n -> {Th(0, 1, 1), Th(3, 4, 5)}], g \in [1..n -> {V(5, 0), V(2, 0)}]} :
         n \in 1..MaxBatch}
  \cup {Angles(Scalar(Th(0, 1, 1)), Scalar(V(5, 0)), Batch(Tabulate(LAMBDA i : Whole(i), n))) :
          n \in 1..MaxBatch}

\* The broadcast size of the angle and radius inputs.
BroadcastSize(a) == Max(Max(Len(a.h.vals), Len(a.v.vals)), Len(a.r.vals))

Targets == {T1(Vec(0, 0, 0)), T1(Vec(0, 0, 1)), T1(Vec(1, 2, 2))}

Ups == {T1(Vec(0, -1, 0)), T1(Vec(0, 0, 1)), T1(Vec(1, 1, 0))}

OriginRows == {Vec(0, 0, 1), Vec(1, 0, -2), Vec(0, 0, 0)}

ForwardRows == {Vec(0, 0, -1), Vec(1, 2, 2), Vec(0, 1, 0)}

BatchesOf(S) == UNION {{T2(f) : f \in [1..n -> S]} : n \in 1..MaxBatch}

Origins == {T1(o) : o \in OriginRows \cup {Vec(3, -1, 2)}} \cup BatchesOf(OriginRows)

Forwards ==
  {T1(f) : f \in ForwardRows \cup {Vec(0, 0, 0), Vec(1, 0, 0), Vec(0, -2, 0),
                                    Vec(1, 1, 1), Vec(-1, 2, 0)}}
  \cup BatchesOf(ForwardRows)

\* The origin broadcasts against the (n, 3) slice of the translation matrices.
Fits(origin, forward) == origin.nd = 1 \/ Len(origin.rows) \in {1, ShapeZero(forward)}

\* ----------------------------------------------------------------- state
VARIABLES
  pc,        \* "idle", or "done" when a call has returned or raised
  op,        \* the function called
  args,      \* its angle and radius arguments, and how it was called
  memIn,     \* the argument tensors as passed
  memOut,    \* the argument tensors as the call left them
  defaults,  \* the default up_vector objects created at definition time
  res        \* the outcome: st, and the returned vectors (vec) or matrices (mats)

vars == <<pc, op, args, memIn, memOut, defaults, res>>

NoAngles == Angles(NoS, NoS, NoS)

\* given: camera_origins was passed; dflt: up_vector was omitted; src: the angles
\* the passed camera_origins were computed from by get_origin, if they were;
\* chained: the forward vectors were returned by get_forward_vector for
\* memIn.lookat and memIn.origin.
NoArgs == [a |-> NoAngles, given |-> FALSE, dflt |-> FALSE, src |-> NoAngles,
           chained |-> FALSE]

Blank == [lookat |-> NoT, origin |-> NoT, forward |-> NoT, up |-> NoT, vectors |-> NoT]

NoRes == [st |-> "none", vec |-> NoT, mats |-> <<>>]

\* torch.tensor([0, -1, 0]), once for sample and once for create_cam2world_matrix.
DefaultUp == T1(Vec(0, -1, 0))

Init ==
  /\ pc = "idle"
  /\ op = "none"
  /\ args = NoArgs
  /\ memIn = Blank
  /\ memOut = Blank
  /\ defaults = [sample_up |-> DefaultUp, c2w_up |-> DefaultUp]
  /\ res = NoRes

GetOrigin ==
  /\ pc = "idle"
  /\ \E a \in ScalarAngles(VRegular \cup VEdge) \cup BatchAngles :
       Let(get_origin(a.h, a.v, a.r), LAMBDA out :
          /\ pc' = "done"
          /\ op' = "get_origin"
          /\ args' = [NoArgs EXCEPT !.a = a]
          /\ memIn' = Blank
          /\ memOut' = Blank
          /\ res' = [st |-> out.st, vec |-> out.val, mats |-> <<>>]
          /\ UNCHANGED defaults)

\* get_forward_vector(lookat, h, v, r): camera_origins omitted.
GetForwardVector ==
  /\ pc = "idle"
  /\ \E a \in ScalarAngles(VRegular) \cup BatchAngles, lookat \in Targets :
       Let(get_forward_vector(lookat, a.h, a.v, a.r, NoT), LAMBDA out :
          /\ pc' = "done"
          /\ op' = "get_forward_vector"
          /\ args' = [NoArgs EXCEPT !.a = a]
          /\ memIn' = [Blank EXCEPT !.lookat = lookat]
          /\ memOut' = [Blank EXCEPT !.lookat = lookat]
          /\ res' = [st |-> out.st, vec |-> out.val, mats |-> <<>>]
          /\ UNCHANGED defaults)

\* get_forward_vector(lookat, h, v, r, camera_origins=origins) on origins the
\* caller made.
GetForwardVectorGiven ==
  /\ pc = "idle"
  /\ \E a \in {Angles(Scalar(Th(0, 1, 1)), Scalar(V(5, 0)), Scalar(One)),
               Angles(Scalar(Th(3, 4, 5)), Scalar(V(2, 0)), Scalar(Whole(2)))},
        lookat \in Targets, origins \in Origins :
       Let(get_forward_vector(lookat, a.h, a.v, a.r, origins), LAMBDA out :
          /\ pc' = "done"
          /\ op' = "get_forward_vector"
          /\ args' = [NoArgs EXCEPT !.a = a, !.given = TRUE]
          /\ memIn' = [Blank EXCEPT !.lookat = lookat, !.origin = origins]
          /\ memOut' = [Blank EXCEPT !.lookat = lookat, !.origin = origins]
          /\ res' = [st |-> out.st, vec |-> out.val, mats |-> <<>>]
          /\ UNCHANGED defaults)

\* An origin whose coordinates are rational, so that its difference from any
\* target is computed exactly.
PlainOrigin(t) == t.nd >= 1 /\ \A i \in DOMAIN t.rows : \A j \in 1..3 : IsPlain(t.rows[i][j])

\* get_forward_vector(..., camera_origins=o) on the o that get_origin has just
\* returned, with the angles o was computed from or with other angles.
ForwardOfOrigin ==
  /\ pc = "done"
  /\ op = "get_origin"
  /\ res.st = "ok"
  /\ PlainOrigin(res.vec)
  /\ \E a \in {args.a, Angles(Scalar(Th(3, 4, 5)), Scalar(V(2, 0)), Scalar(Whole(2)))},
        lookat \in Targets :
       Let(get_forward_vector(lookat, a.h, a.v, a.r, res.vec), LAMBDA out :
          /\ pc' = "done"
          /\ op' = "get_forward_vector"
          /\ args' = [NoArgs EXCEPT !.a = a, !.given = TRUE, !.src = args.a]
          /\ memIn' = [Blank EXCEPT !.lookat = lookat, !.origin = res.vec]
          /\ memOut' = [Blank EXCEPT !.lookat = lookat, !.origin = res.vec]
          /\ res' = [st |-> out.st, vec |-> out.val, mats |-> <<>>]
          /\ UNCHANGED defaults)

\* create_cam2world_matrix(forward, origin[, up_vector]).
CreateCam2World ==
  /\ pc = "idle"
  /\ \E forward \in Forwards, origin \in Origins, up \in Ups \cup {NoT} :
       /\ Fits(origin, forward)
       /\ Let(create_cam2world_matrix(forward, origin,
                                             IF up = NoT THEN defaults.c2w_up ELSE up), LAMBDA out :
             /\ pc' = "done"
             /\ op' = "create_cam2world_matrix"
             /\ args' = [NoArgs EXCEPT !.dflt = (up = NoT)]
             /\ memIn' = [Blank EXCEPT !.forward = forward, !.origin = origin, !.up = up]
             /\ memOut' = [Blank EXCEPT !.forward = out.forward, !.origin = out.origin,
                                        !.up = IF up = NoT THEN NoT ELSE out.up]
             /\ defaults' = IF up = NoT THEN [defaults EXCEPT !.c2w_up = out.up]
                            ELSE defaults
             /\ res' = [st |-> out.st, vec |-> NoT, mats |-> out.val])

\* create_cam2world_matrix on the forward vectors get_forward_vector has just
\* returned for the passed camera origins.
Cam2WorldOfForward ==
  /\ pc = "done"
  /\ op = "get_forward_vector"
  /\ args.given
  /\ res.st = "ok"
  /\ \E up \in {T1(Vec(1, 1, 0)), NoT} :
       Let(create_cam2world_matrix(res.vec, memIn.origin,
                                          IF up = NoT THEN defaults.c2w_up ELSE up), LAMBDA out :
          /\ pc' = "done"
          /\ op' = "create_cam2world_matrix"
          /\ args' = [NoArgs EXCEPT !.dflt = (up = NoT), !.chained = TRUE]
          /\ memIn' = [memIn EXCEPT !.forward = res.vec, !.up = up]
          /\ memOut' = [memOut EXCEPT !.forward = out.forward, !.origin = out.origin,
                                      !.up = IF up = NoT THEN NoT ELSE out.up]
          /\ defaults' = IF up = NoT THEN [defaults EXCEPT !.c2w_up = out.up]
                         ELSE defaults
          /\ res' = [st |-> out.st, vec |-> NoT, mats |-> out.val])

\* LookAtPoseSampler.sample(h, v, lookat, radius[, up_vector]).
Sample ==
  /\ pc = "idle"
  /\ \E a \in ScalarAngles(VRegular) \cup BatchAngles, lookat \in Targets,
        up \in Ups \cup {NoT} :
       Let(sample(a.h, a.v, lookat, a.r,
                         IF up = NoT THEN defaults.sample_up ELSE up), LAMBDA out :
          /\ pc' = "done"
          /\ op' = "sample"
          /\ args' = [NoArgs EXCEPT !.a = a, !.dflt = (up = NoT)]
          /\ memIn' = [Blank EXCEPT !.lookat = lookat, !.up = up]
          /\ memOut' = [Blank EXCEPT !.lookat = out.lookat,
                                     !.up = IF up = NoT THEN NoT ELSE out.up]
          /\ defaults' = IF up = NoT THEN [defaults EXCEPT !.sample_up = out.up]
                         ELSE defaults
          /\ res' = [st |-> out.st, vec |-> NoT, mats |-> out.val])

NormalizeVecs ==
  /\ pc = "idle"
  /\ \E vectors \in Forwards \cup Origins :
       Let(normalize_vecs(vectors), LAMBDA out :
          /\ pc' = "done"
          /\ op' = "normalize_vecs"
          /\ args' = NoArgs
          /\ memIn' = [Blank EXCEPT !.vectors = vectors]
          /\ memOut' = [Blank EXCEPT !.vectors = out.arg]
          /\ res' = [st |-> "ok", vec |-> out.val, mats |-> <<>>]
          /\ UNCHANGED defaults)

\* The caller takes the outcome; the next call starts from the defaults as the
\* calls so far have left them.
Return ==
  /\ pc = "done"
  /\ pc' = "idle"
  /\ op' = "none"
  /\ args' = NoArgs
  /\ memIn' = Blank
  /\ memOut' = Blank
  /\ res' = NoRes
  /\ UNCHANGED defaults

Next ==
  \/ GetOrigin
  \/ GetForwardVector
  \/ GetForwardVectorGiven
  \/ ForwardOfOrigin
  \/ CreateCam2World
  \/ Cam2WorldOfForward
  \/ Sample
  \/ NormalizeVecs
  \/ Return

Spec == Init /\ [][Next]_vars

\* ------------------------------------------------------------ properties
Called(name) == pc = "done" /\ op = name

ZeroVec == <<Zero, Zero, Zero>>

UnitSq == [p |-> <<1, 0, 0>>, d |-> 1]

Dot(a, b) == Add(Add(Mul(a[1], b[1]), Mul(a[2], b[2])), Mul(a[3], b[3]))

\* Column j of the upper three rows of a 4x4 matrix.
Col(m, j) == <<m[1][j], m[2][j], m[3][j]>>

\* The quotient x / y of two commensurable finite numbers, y non-zero, as a pair
\* <<numerator, denominator>> of integers.
RatioOf(x, y) ==
  IF x.s = 0 THEN <<0, 1>>
  ELSE CASE Commensurable(x, y) ->
         LET i  == CHOOSE j \in 1..3 : x.p[j] # 0
             g1 == GCD(Abs(y.p[i]), Abs(x.p[i]))
             g2 == GCD(x.d, y.d)
         IN <<x.s * y.s * Root((Abs(x.p[i]) \div g1) * (y.d \div g2)),
              Root((Abs(y.p[i]) \div g1) * (x.d \div g2))>>

LCM(a, b) == (a \div GCD(a, b)) * b

\* The integer vector n with c = lambda * n for a lambda > 0, for a vector c of
\* finite, pairwise commensurable components.
IntDir(c) ==
  IF c = ZeroVec THEN <<0, 0, 0>>
  ELSE LET k == CHOOSE j \in 1..3 : c[j] # Zero
           q == <<RatioOf(c[1], c[k]), RatioOf(c[2], c[k]), RatioOf(c[3], c[k])>>
           L == LCM(LCM(q[1][2], q[2][2]), q[3][2])
       IN <<c[k].s * q[1][1] * (L \div q[1][2]),
            c[k].s * q[2][1] * (L \div q[2][2]),
            c[k].s * q[3][1] * (L \div q[3][2])>>

IDot(a, b) == a[1] * b[1] + a[2] * b[2] + a[3] * b[3]

ICross(a, b) ==
  <<a[2] * b[3] - a[3] * b[2], a[3] * b[1] - a[1] * b[3], a[1] * b[2] - a[2] * b[1]>>

\* a . b = 0 for two vectors of finite components: with a = lambda * IntDir(a)
\* and b = mu * IntDir(b), a . b = lambda * mu * (IntDir(a) . IntDir(b)).
Perpendicular(a, b) == IDot(IntDir(a), IntDir(b)) = 0

\* <<l', r1', .., rn'>>: l and the factors rs after cancelling what l shares
\* with each of them in turn.
RECURSIVE CancelAll(_, _)
CancelAll(l, rs) ==
  IF rs = <<>> THEN <<l>>
  ELSE Let(GCD(l, Head(rs)), LAMBDA g :
         Let(CancelAll(l \div g, Tail(rs)), LAMBDA rest :
           <<Head(rest), Head(rs) \div g>> \o Tail(rest)))

\* The products of two sequences of positive integers are equal.
RECURSIVE SameProduct(_, _)
SameProduct(ls, rs) ==
  IF ls = <<>> THEN \A i \in DOMAIN rs : rs[i] = 1
  ELSE Let(CancelAll(Head(ls), rs), LAMBDA c :
         Head(c) = 1 /\ SameProduct(Tail(ls), Tail(c)))

\* The determinant of the rotation block m is +1.  With column j equal to
\* lambda_j * n_j for the integer vector n_j = IntDir(column j), the determinant
\* is lambda_1 * lambda_2 * lambda_3 * D for D = n_1 . (n_2 x n_3), and
\* lambda_j^2 = |column j|^2 / |n_j|^2 = p_j / (d_j * |n_j|^2); so it is +1
\* exactly when D > 0 and D^2 * p_1 * p_2 * p_3 = prod_j (d_j * |n_j|^2).
DetIsOne(m) ==
  LET n  == <<IntDir(Col(m, 1)), IntDir(Col(m, 2)), IntDir(Col(m, 3))>>
      q  == <<SumSq(Col(m, 1)), SumSq(Col(m, 2)), SumSq(Col(m, 3))>>
      D  == IDot(n[1], ICross(n[2], n[3]))
  IN /\ \A j \in 1..3 : q[j].p[1] > 0 /\ q[j].p[2] = 0 /\ q[j].p[3] = 0
     /\ D > 0
     /\ SameProduct(<<D, D, q[1].p[1], q[2].p[1], q[3].p[1]>>,
                    <<q[1].d, IDot(n[1], n[1]), q[2].d, IDot(n[2], n[2]),
                      q[3].d, IDot(n[3], n[3])>>)

\* The unit vector from origin o to target t: (t - o) / |t - o|.
Direction(t, o) == DivVec(SubVec(t, o), Norm(SubVec(t, o)))

\* The up hint the call in the current state was given.
UpPassed == IF args.dflt THEN DefaultUp ELSE memIn.up

\* Matrix i of the current call comes from a non-zero forward vector and an up
\* hint that is not parallel to it.
NonDegenerate(i) ==
  /\ \A j \in 1..3 : IsFinite(At(memIn.forward.rows, i)[j])
  /\ At(memIn.forward.rows, i) # ZeroVec
  /\ CrossVec(At(UpPassed.rows, i), At(memIn.forward.rows, i)) # ZeroVec

\* The spherical mapping of section 4.1 for an unclamped vertical angle v:
\* x = r sin(phi) cos(pi - theta), y = r cos(phi), z = r sin(phi) sin(pi - theta).
SphereMap(theta, v, r) ==
  <<Mul(Mul(r, SinArccos(PhiOf(v))), Neg(theta.c)),
    Mul(r, CosArccos(PhiOf(v))),
    Mul(Mul(r, SinArccos(PhiOf(v))), theta.s)>>

\* C1: sample on inputs of broadcast size N returns exactly N matrices.
C1_SampleBatchSize ==
  Called("sample") => res.st = "ok" /\ Len(res.mats) = BroadcastSize(args.a)

\* What sample does instead: three copies of one matrix for inputs of broadcast
\* size 1, and a RuntimeError for larger batches.
SampleReturnsThreeOrRaises ==
  Called("sample") =>
    IF BroadcastSize(args.a) = 1
    THEN res.st = "ok" /\ Len(res.mats) = 3 /\ res.mats[1] = res.mats[2]
         /\ res.mats[2] = res.mats[3]
    ELSE res.st = "RuntimeError"

\* C2: for one target and N origins, get_forward_vector returns N forward
\* vectors, forward i being the direction from origin i to the target, and
\* create_cam2world_matrix on them returns N matrices, matrix i having forward i
\* as its third column and origin i as its translation and being the matrix the
\* call returns for row i alone.
C2_RowsFollowOrigins ==
  /\ (Called("get_forward_vector") /\ args.given /\ memIn.origin.nd = 2) =>
       /\ res.st = "ok"
       /\ res.vec.nd = 2
       /\ Len(res.vec.rows) = Len(memIn.origin.rows)
       /\ \A i \in DOMAIN memIn.origin.rows :
            res.vec.rows[i] = Direction(memIn.lookat.rows[1], memIn.origin.rows[i])
  /\ (Called("create_cam2world_matrix") /\ args.chained /\ memIn.origin.nd = 2) =>
       /\ res.st = "ok"
       /\ Len(res.mats) = Len(memIn.origin.rows)
       /\ \A i \in DOMAIN memIn.origin.rows :
            /\ Col(res.mats[i], 3) = Direction(memIn.lookat.rows[1], memIn.origin.rows[i])
            /\ Col(res.mats[i], 4) = memIn.origin.rows[i]
            /\ res.mats[i] = create_cam2world_matrix(T2(<<memIn.forward.rows[i]>>),
                                                     T2(<<memIn.origin.rows[i]>>),
                                                     UpPassed).val[1]

C2_Witness ==
  /\ Called("create_cam2world_matrix") /\ args.chained
  /\ memIn.origin = T2(<<Vec(1, 0, -2), Vec(0, 0, 1)>>)
  /\ memIn.lookat = T1(Vec(1, 2, 2))
  /\ res.st = "ok"
  /\ res.mats[1] # res.mats[2]

\* C3: the fourth column of every returned matrix is (origin, 1).
C3_TranslationIsOrigin ==
  (Called("create_cam2world_matrix") /\ res.st = "ok") =>
    \A i \in DOMAIN res.mats :
      /\ Col(res.mats[i], 4) = At(memIn.origin.rows, i)
      /\ res.mats[i][4][4] = One

C3_Witness ==
  /\ Called("create_cam2world_matrix") /\ res.st = "ok"
  /\ memIn.forward = T1(Vec(1, 2, 2))
  /\ memIn.origin = T1(Vec(3, -1, 2))
  /\ Col(res.mats[1], 4) = Vec(3, -1, 2)
  /\ Col(res.mats[1], 3) # Vec(0, 0, 1)

\* C4: for a non-zero forward vector and an up hint not parallel to it, the three
\* columns of the rotation block are pairwise perpendicular and of unit norm.
C4_Orthonormal ==
  (Called("create_cam2world_matrix") /\ res.st = "ok") =>
    \A i \in DOMAIN res.mats : NonDegenerate(i) =>
      /\ \A j \in 1..3 : /\ \A a \in 1..3 : IsFinite(res.mats[i][a][j])
                         /\ SumSq(Col(res.mats[i], j)) = UnitSq
      /\ Perpendicular(Col(res.mats[i], 1), Col(res.mats[i], 2))
      /\ Perpendicular(Col(res.mats[i], 1), Col(res.mats[i], 3))
      /\ Perpendicular(Col(res.mats[i], 2), Col(res.mats[i], 3))

\* An up hint that is neither of unit length nor perpendicular to forward.
C4_Witness ==
  /\ Called("create_cam2world_matrix") /\ res.st = "ok"
  /\ memIn.forward = T1(Vec(1, 2, 2))
  /\ memIn.up = T1(Vec(1, 1, 0))
  /\ NonDegenerate(1)
  /\ Dot(Vec(1, 1, 0), Vec(1, 2, 2)) # Zero

\* C5: for every non-degenerate input the rotation block has determinant +1.
C5_DeterminantOne ==
  (Called("create_cam2world_matrix") /\ res.st = "ok") =>
    \A i \in DOMAIN res.mats : NonDegenerate(i) =>
      /\ \A a, j \in 1..3 : IsFinite(res.mats[i][a][j])
      /\ DetIsOne(res.mats[i])

\* A non-default up hint.
C5_Witness ==
  /\ Called("create_cam2world_matrix") /\ res.st = "ok"
  /\ memIn.forward = T1(Vec(-1, 2, 0))
  /\ memIn.up = T1(Vec(0, 0, 1))
  /\ NonDegenerate(1)
  /\ DetIsOne(res.mats[1])

\* C6: a vertical angle <= 1e-5 yields the origin of 1e-5, one >= pi - 1e-5 the
\* origin of pi - 1e-5, and one strictly inside is mapped unchanged.
C6_ClampTakesEffect ==
  (Called("get_origin") /\ res.st = "ok") =>
    LET v == args.a.v.vals[1]
    IN /\ VLeq(v, Eps) =>
            res.vec = get_origin(args.a.h, [args.a.v EXCEPT !.vals = <<Eps>>], args.a.r).val
       /\ VLeq(PiMinusEps, v) =>
            res.vec = get_origin(args.a.h, [args.a.v EXCEPT !.vals = <<PiMinusEps>>],
                                 args.a.r).val
       /\ (VLess(Eps, v) /\ VLess(v, PiMinusEps)) =>
            res.vec.rows[1] = SphereMap(args.a.h.vals[1], v, args.a.r.vals[1])

C6_Witness ==
  /\ Called("get_origin") /\ res.st = "ok"
  /\ args.a.v = Scalar(V(0, 0))
  /\ args.a.r = Scalar(Whole(2))
  /\ res.vec.rows[1] = SphereMap(args.a.h.vals[1], Eps, Whole(2))
  /\ res.vec.rows[1] # SphereMap(args.a.h.vals[1], V(0, 0), Whole(2))

\* C7: no call raises on a degenerate input (it returns the shape of a regular
\* call, with NaN where the division by a zero norm happened), and the only
\* error a call can signal is the trailing-shape assertion.
DegenerateInputsReturn ==
  /\ (Called("sample") /\ BroadcastSize(args.a) = 1) =>
       /\ res.st = "ok"
       /\ Len(res.mats) = 3
  /\ (Called("get_origin") /\ BroadcastSize(args.a) = 1) =>
       res.st = "ok" /\ res.vec.nd = 1
  /\ Called("normalize_vecs") =>
       /\ res.vec.nd = memIn.vectors.nd
       /\ Len(res.vec.rows) = Len(memIn.vectors.rows)
       /\ \A i \in DOMAIN res.vec.rows :
            memIn.vectors.rows[i] = ZeroVec => res.vec.rows[i] = <<NaN, NaN, NaN>>
  /\ (Called("get_forward_vector") /\ args.given) =>
       /\ res.st = "ok"
       /\ \A i \in DOMAIN res.vec.rows :
            memIn.lookat.rows[1] = At(memIn.origin.rows, i) =>
              res.vec.rows[i] = <<NaN, NaN, NaN>>
  /\ Called("create_cam2world_matrix") =>
       /\ res.st = "ok"
       /\ Len(res.mats) = ShapeZero(memIn.forward)
       /\ \A i \in DOMAIN res.mats : ~NonDegenerate(i) =>
            /\ Col(res.mats[i], 1) = <<NaN, NaN, NaN>>
            /\ Col(res.mats[i], 2) = <<NaN, NaN, NaN>>

C7_OnlyAssertionRaised ==
  /\ DegenerateInputsReturn
  /\ pc = "done" => res.st \in {"ok", "AssertionError"}

\* C8: for a vertical angle strictly inside the clamp interval and r > 0 the
\* origin is the point (r sin(phi) cos(pi - theta), r cos(phi),
\* r sin(phi) sin(pi - theta)) and lies on the sphere of radius r.
C8_OnSphere ==
  (Called("get_origin") /\ res.st = "ok") =>
    LET v == args.a.v.vals[1]
        r == args.a.r.vals[1]
    IN (VLess(Eps, v) /\ VLess(v, PiMinusEps) /\ r.s = 1) =>
         /\ \A j \in 1..3 : IsFinite(res.vec.rows[1][j])
         /\ res.vec.rows[1] = SphereMap(args.a.h.vals[1], v, r)
         /\ SumSq(res.vec.rows[1]) = SqOf(r)

\* An angle 2e-5, next to the lower bound of the clamp, and radius 2.
C8_Witness ==
  /\ Called("get_origin") /\ res.st = "ok"
  /\ args.a = Angles(Scalar(Th(3, 4, 5)), Scalar(V(0, 2)), Scalar(Whole(2)))
  /\ \A j \in 1..3 : res.vec.rows[1][j] # Zero
  /\ SumSq(res.vec.rows[1]) = [p |-> <<4, 0, 0>>, d |-> 1]

\* C9: get_forward_vector returns normalize(target - origin) in both modes; a
\* passed origin is used as given, whatever the angles and the radius; and on the
\* origin get_origin returns for its angles and radius the call returns what it
\* returns with the origin omitted.
C9_ForwardModesAgree ==
  Called("get_forward_vector") =>
    /\ ~args.given =>
         /\ res.st = get_origin(args.a.h, args.a.v, args.a.r).st
         /\ res.st = "ok" =>
              res.vec = T1(Direction(memIn.lookat.rows[1],
                                     get_origin(args.a.h, args.a.v, args.a.r).val.rows[1]))
    /\ args.given =>
         /\ res.st = "ok"
         /\ res.vec.nd = memIn.origin.nd
         /\ Len(res.vec.rows) = Len(memIn.origin.rows)
         /\ \A i \in DOMAIN memIn.origin.rows :
              res.vec.rows[i] = Direction(memIn.lookat.rows[1], memIn.origin.rows[i])
    /\ (args.given /\ args.src = args.a) =>
         /\ get_forward_vector(memIn.lookat, args.a.h, args.a.v, args.a.r, NoT).st = "ok"
         /\ res.vec = get_forward_vector(memIn.lookat, args.a.h, args.a.v, args.a.r, NoT).val

C9_Witness ==
  /\ Called("get_forward_vector") /\ args.given /\ res.st = "ok"
  /\ args.src = args.a
  /\ args.a = Angles(Scalar(Th(-4, 3, 5)), Scalar(V(8, 0)), Scalar(Whole(2)))
  /\ memIn.lookat = T1(Vec(1, 2, 2))
  /\ \A j \in 1..3 : IsFinite(res.vec.rows[1][j])

====
